---- MODULE Spec2Model ----
(***************************************************************************)
(* LagLens: windowed latency statistics (LatencyHistory), the world map    *)
(* (WorldMap.draw), ping_server and its indicator, the periodic probe      *)
(* round of LagLensApp, its add-server form and what it displays.          *)
(*                                                                         *)
(* Specifications: SpecHistory, SpecSparkline (LatencyHistory), SpecMap    *)
(* (WorldMap), SpecPing (ping.py), Spec (the app: rounds, form, minutes),  *)
(* SpecServers (the form under every input), SpecTiming (a round in        *)
(* seconds), SpecLoop (several rounds, add and quit), SpecLive (the loop   *)
(* under fair scheduling, widget updates that may raise), SpecRead (a      *)
(* read of LatencyHistory overlapping appends), SpecSeries (everything     *)
(* that touches the series), SpecHostList (the runtime host list).         *)
(*                                                                         *)
(* Time is counted in whole minutes.  Latencies are the integer            *)
(* milliseconds ping_server returns (int(delay)); Python floats computed   *)
(* from them (avg, jitter, packet_loss, sparkline points) are modelled as  *)
(* exact fractions [num, den], den > 0; a float field holding None is the  *)
(* fraction with den = 0.                                                  *)
(***************************************************************************)
EXTENDS Integers, Sequences, FiniteSets, TLC

VARIABLES
    history,           \* LatencyHistory.history: ip -> list of measurements
    now,               \* datetime.now(), in minutes
    feed,              \* behaviour of the prober in the long-running specification
    runtime_servers,   \* LagLensApp.runtime_servers
    latest_latencies,  \* LagLensApp.latest_latencies (dict ip -> latency | None)
    sparklines,        \* LagLensApp.sparklines (dict ip -> LatencySparkline.data)
    stats_panel,       \* text of each host's "stats-<ip>" widget
    map_markers,       \* servers_with_indicators last handed to WorldMap.draw
    pc,                \* position of periodic_ping_updates / update_ping_results
    tasks,             \* ips of the probes of the round in progress
    results,           \* results gathered so far for the round
    current_time,      \* current_time captured at the start of the round
    map_timer,         \* the one-shot set_timer(0.5, update_world_map) of on_mount
    rounds,            \* rounds started so far
    elapsed,           \* seconds since the round in progress (or the last one) began
    notification,      \* the last self.notify(...) of add_new_server
    _land_grid_cache,  \* WorldMap._land_grid_cache: (columns, lines) -> land grid
    map_call,          \* the last call of WorldMap.draw and its outcome
    ping_call,         \* the last call of ping_server / get_latency_indicator
    stats_file,        \* what action_save_statistics wrote last
    reading            \* a get_statistics call in progress on another thread

vars == <<history, now, feed, runtime_servers, latest_latencies, sparklines,
          stats_panel, map_markers, pc, tasks, results, current_time,
          map_timer, rounds, elapsed, notification, _land_grid_cache,
          map_call, ping_call, stats_file, reading>>

appVars == <<runtime_servers, latest_latencies, sparklines, stats_panel,
             map_markers, pc, tasks, results, current_time, map_timer, rounds,
             elapsed, notification, _land_grid_cache, map_call, ping_call, stats_file, reading>>

historyVars == <<history, now, feed>>

roundVars == <<runtime_servers, latest_latencies, sparklines, stats_panel,
               map_markers, pc, tasks, results, current_time, map_timer, rounds,
               elapsed, notification>>

mapVars == <<_land_grid_cache, map_call>>

----------------------------------------------------------------------------
(* Bounds of the model *)

MaxTime == 120
MaxMeasurements == 3
MaxSeriesLen == 104
MaxRounds == 1
MaxSparkTime == 60

TickSteps == {30, 60}

LongSteps == {60}

(* Values *)

None == -1

Latencies == {40, 60}

LatencyOrNone == Latencies \cup {None}

HostKeys == {"99.82.166.0", "15.228.0.0", "35.180.0.0", "35.71.118.0"}

Windows == {30, 60}

----------------------------------------------------------------------------
(* Python floats as exact fractions *)

Q(n, d) == [num |-> n, den |-> d]

NoneFloat == Q(0, 0)

IsNoneFloat(q) == q.den = 0

float(x) == Q(x, 1)

QLe(a, b) == a.num * b.den <= b.num * a.den

QLt(a, b) == a.num * b.den < b.num * a.den

QEq(a, b) == a.num * b.den = b.num * a.den

abs(x) == IF x < 0 THEN -x ELSE x

RECURSIVE sum(_)
sum(s) == IF s = <<>> THEN 0 ELSE Head(s) + sum(Tail(s))

RECURSIVE min(_)
min(s) == IF Len(s) = 1 THEN s[1]
          ELSE LET m == min(Tail(s)) IN IF s[1] <= m THEN s[1] ELSE m

RECURSIVE max(_)
max(s) == IF Len(s) = 1 THEN s[1]
          ELSE LET m == max(Tail(s)) IN IF s[1] >= m THEN s[1] ELSE m

----------------------------------------------------------------------------
(* LatencyHistory *)

Measurement(latency, timestamp) == [latency |-> latency, timestamp |-> timestamp]

(* An append turned into an insertion in front of the series *)
AddMeasurementInFront(hist, server_ip, latency, timestamp) ==
    [hist EXCEPT ![server_ip] = <<Measurement(latency, timestamp)>> \o @]

add_measurement(hist, server_ip, latency, timestamp) ==
    [hist EXCEPT ![server_ip] = Append(@, Measurement(latency, timestamp))]

RecentDataExclusiveCutoff(hist, server_ip, window_minutes, t) ==
    LET cutoff_time == t - window_minutes
    IN  SelectSeq(hist[server_ip], LAMBDA m : m.timestamp > cutoff_time)

RecentDataNoCutoff(hist, server_ip, window_minutes, t) ==
    hist[server_ip]

_get_recent_data(hist, server_ip, window_minutes, t) ==
    LET cutoff_time == t - window_minutes
    IN  SelectSeq(hist[server_ip], LAMBDA m : m.timestamp >= cutoff_time)

_calculate_packet_loss(recent) ==
    IF recent = <<>> THEN NoneFloat
    ELSE LET failed_count == Len(SelectSeq(recent, LAMBDA m : m.latency = None))
             total_count == Len(recent)
         IN  IF total_count > 0 THEN Q(failed_count * 100, total_count)
             ELSE float(0)

JitterSigned(latencies) ==
    IF Len(latencies) < 2 THEN float(0)
    ELSE LET diffs == [i \in 1..(Len(latencies) - 1) |->
                          latencies[i + 1] - latencies[i]]
         IN  Q(sum(diffs), Len(diffs))

_calculate_jitter(latencies) ==
    IF Len(latencies) < 2 THEN float(0)
    ELSE LET diffs == [i \in 1..(Len(latencies) - 1) |->
                          abs(latencies[i + 1] - latencies[i])]
         IN  Q(sum(diffs), Len(diffs))

PresentLatencies(recent) ==
    LET present == SelectSeq(recent, LAMBDA m : m.latency # None)
    IN  [i \in 1..Len(present) |-> present[i].latency]

NoStatistics ==
    [min |-> None, max |-> None, avg |-> NoneFloat, jitter |-> NoneFloat,
     packet_loss |-> NoneFloat]

StatisticsAvgOverAll(hist, server_ip, window_minutes, t) ==
    LET recent == _get_recent_data(hist, server_ip, window_minutes, t)
        latencies == PresentLatencies(recent)
    IN  IF latencies = <<>> THEN NoStatistics
        ELSE [min |-> min(latencies),
              max |-> max(latencies),
              avg |-> Q(sum(latencies), Len(recent)),
              jitter |-> _calculate_jitter(latencies),
              packet_loss |-> _calculate_packet_loss(recent)]

StatisticsGapBreaksJitter(hist, server_ip, window_minutes, t) ==
    LET recent == _get_recent_data(hist, server_ip, window_minutes, t)
        latencies == PresentLatencies(recent)
        pairs == {i \in 1..(Len(recent) - 1) :
                     recent[i].latency # None /\ recent[i + 1].latency # None}
        diffs == [i \in 1..(Len(recent) - 1) |->
                     IF i \in pairs
                     THEN abs(recent[i + 1].latency - recent[i].latency)
                     ELSE 0]
    IN  IF latencies = <<>> THEN NoStatistics
        ELSE [min |-> min(latencies),
              max |-> max(latencies),
              avg |-> Q(sum(latencies), Len(latencies)),
              jitter |-> IF pairs = {} THEN float(0)
                         ELSE Q(sum(diffs), Cardinality(pairs)),
              packet_loss |-> _calculate_packet_loss(recent)]

get_statistics(hist, server_ip, window_minutes, t) ==
    LET recent == _get_recent_data(hist, server_ip, window_minutes, t)
        latencies == PresentLatencies(recent)
    IN  IF latencies = <<>> THEN NoStatistics
        ELSE [min |-> min(latencies),
              max |-> max(latencies),
              avg |-> Q(sum(latencies), Len(latencies)),
              jitter |-> _calculate_jitter(latencies),
              packet_loss |-> _calculate_packet_loss(recent)]

max_points == 50

SparklineNoPlaceholder(hist, server_ip, minutes, t) ==
    LET recent_data == _get_recent_data(hist, server_ip, minutes, t)
        latencies == PresentLatencies(recent_data)
        n == Len(latencies)
        step == n \div max_points
        kept == IF n > max_points
                THEN [k \in 1..((n + step - 1) \div step) |->
                         latencies[1 + (k - 1) * step]]
                ELSE latencies
    IN  [i \in 1..Len(kept) |-> float(kept[i])]

get_sparkline_data(hist, server_ip, minutes, t) ==
    LET recent_data == _get_recent_data(hist, server_ip, minutes, t)
        latencies == PresentLatencies(recent_data)
        n == Len(latencies)
        step == n \div max_points
        kept == IF n > max_points
                THEN [k \in 1..((n + step - 1) \div step) |->
                         latencies[1 + (k - 1) * step]]
                ELSE latencies
    IN  IF latencies = <<>> THEN <<float(0)>>
        ELSE [i \in 1..Len(kept) |-> float(kept[i])]

----------------------------------------------------------------------------
(* LatencyHistory driven by arbitrary callers: every measurement is        *)
(* recorded with the current time, as the application does.                *)

EmptyHistory == [ip \in HostKeys |-> <<>>]

(* The hosts that are probed; the remaining key is a host never recorded *)
RecordedHosts == {"99.82.166.0", "15.228.0.0"}

TotalMeasurements == Len(history["99.82.166.0"]) + Len(history["15.228.0.0"])

(* WorldMap.draw and ping_server before their first call *)
NoMapCall ==
    [columns |-> 0, lines |-> 0, servers |-> <<>>, raised |-> "not called",
     text |-> <<>>, classified |-> 0]

NoIndicator == [emoji |-> "", body |-> "", style |-> ""]

NoPingCall ==
    [kind |-> "not called", delay |-> [num |-> 0, den |-> 1], raised |-> "",
     latency_ms |-> 0, indicator |-> NoIndicator]

(* No get_statistics call in progress *)
NoRead ==
    [pc |-> "idle", kind |-> "", server_ip |-> "", window_minutes |-> 0,
     cutoff_time |-> 0, first_len |-> 0, last_len |-> 0, index |-> 0,
     recent |-> <<>>, result |-> NoStatistics, data |-> <<>>]

AppIdle ==
    /\ runtime_servers = <<>>
    /\ latest_latencies = <<>>
    /\ sparklines = <<>>
    /\ stats_panel = <<>>
    /\ map_markers = <<>>
    /\ pc = "off"
    /\ tasks = <<>>
    /\ results = <<>>
    /\ current_time = 0
    /\ map_timer = "off"
    /\ rounds = 0
    /\ elapsed = 0
    /\ notification = "none"
    /\ _land_grid_cache = <<>>
    /\ map_call = NoMapCall
    /\ ping_call = NoPingCall
    /\ stats_file = <<>>
    /\ reading = NoRead

InitHistory ==
    /\ history = EmptyHistory
    /\ now = 0
    /\ feed = "none"
    /\ AppIdle

Record(server_ip, latency) ==
    /\ TotalMeasurements < MaxMeasurements
    /\ history' = add_measurement(history, server_ip, latency, now)
    /\ UNCHANGED <<now, feed>>
    /\ UNCHANGED appVars

Tick(d) ==
    /\ now + d <= MaxTime
    /\ now' = now + d
    /\ UNCHANGED <<history, feed>>
    /\ UNCHANGED appVars

NextHistory ==
    \/ \E server_ip \in RecordedHosts, latency \in LatencyOrNone :
          Record(server_ip, latency)
    \/ \E d \in TickSteps : Tick(d)

SpecHistory == InitHistory /\ [][NextHistory]_vars

----------------------------------------------------------------------------
(* The window of a series, stated from the timestamps alone *)

InWindow(server_ip, window_minutes) ==
    {i \in 1..Len(history[server_ip]) :
        history[server_ip][i].timestamp >= now - window_minutes}

PresentInWindow(server_ip, window_minutes) ==
    {i \in InWindow(server_ip, window_minutes) :
        history[server_ip][i].latency # None}

PresentValues(server_ip, window_minutes) ==
    {history[server_ip][i].latency : i \in PresentInWindow(server_ip, window_minutes)}

Stats(server_ip, window_minutes) ==
    get_statistics(history, server_ip, window_minutes, now)

(* Hundredths of a fraction, rounded to the nearest *)
Hundredths(q) == (2 * 100 * q.num + q.den) \div (2 * q.den)

\* C1: for every host series and window the packet_loss returned by
\* get_statistics lies in [0, 100], and it is 100 exactly when the window is
\* non-empty and every measurement in it is absent.
C1_PacketLossRange ==
    \A server_ip \in HostKeys, w \in Windows :
        LET pl == Stats(server_ip, w).packet_loss
        IN  /\ ~IsNoneFloat(pl) => QLe(float(0), pl) /\ QLe(pl, float(100))
            /\ (~IsNoneFloat(pl) /\ QEq(pl, float(100)))
                   <=> (/\ InWindow(server_ip, w) # {}
                        /\ PresentInWindow(server_ip, w) = {})

\* C5: whenever the window holds at least one present latency, the statistics
\* satisfy min <= avg <= max, and min and max occur among the present
\* in-window latencies.
C5_MinAvgMax ==
    \A server_ip \in HostKeys, w \in Windows :
        PresentInWindow(server_ip, w) # {} =>
            LET st == Stats(server_ip, w)
            IN  /\ ~IsNoneFloat(st.avg)
                /\ QLe(float(st.min), st.avg)
                /\ QLe(st.avg, float(st.max))
                /\ st.min \in PresentValues(server_ip, w)
                /\ st.max \in PresentValues(server_ip, w)

C5_Witness ==
    \E server_ip \in HostKeys :
        /\ Cardinality(PresentValues(server_ip, 60)) = 2
        /\ Cardinality(PresentInWindow(server_ip, 60)) = 2
        /\ Len(history[server_ip]) > Cardinality(InWindow(server_ip, 60))
        /\ QLt(float(Stats(server_ip, 60).min), Stats(server_ip, 60).avg)

\* C6: a jitter value returned by get_statistics is >= 0; it is exactly 0 when
\* all present in-window latencies are equal (two or more samples) and when
\* there is only one present sample.
C6_Jitter ==
    \A server_ip \in HostKeys, w \in Windows :
        LET st == Stats(server_ip, w)
            count == Cardinality(PresentInWindow(server_ip, w))
        IN  /\ ~IsNoneFloat(st.jitter) => QLe(float(0), st.jitter)
            /\ (count >= 2 /\ Cardinality(PresentValues(server_ip, w)) = 1)
                   => QEq(st.jitter, float(0))
            /\ count = 1 => QEq(st.jitter, float(0))

C6_Witness ==
    /\ \E server_ip \in HostKeys :
          /\ Cardinality(PresentInWindow(server_ip, 60)) = 1
          /\ QEq(Stats(server_ip, 60).jitter, float(0))
    /\ \E server_ip \in HostKeys :
          /\ Cardinality(PresentInWindow(server_ip, 60)) = 2
          /\ Cardinality(PresentValues(server_ip, 60)) = 1
          /\ QEq(Stats(server_ip, 60).jitter, float(0))

(* The series of a host with its failed probes removed *)
WithoutFailures(server_ip) ==
    [history EXCEPT ![server_ip] = SelectSeq(@, LAMBDA m : m.latency # None)]

WindowLatencies(server_ip, window_minutes) ==
    LET recent == SelectSeq(history[server_ip],
                            LAMBDA m : m.timestamp >= now - window_minutes)
    IN  [i \in 1..Len(recent) |-> recent[i].latency]

\* C7: jitter is the mean absolute difference between neighbouring present
\* latencies of the window after failed probes are removed: a failure between
\* two successes does not break the series, and the window (40, absent, 60)
\* yields jitter 20, min 40, max 60, avg 50 and packet loss 33.33.
C7_JitterSkipsFailures ==
    \A server_ip \in HostKeys, w \in Windows :
        LET st == Stats(server_ip, w)
        IN  /\ st.jitter =
                   get_statistics(WithoutFailures(server_ip), server_ip, w, now).jitter
            /\ WindowLatencies(server_ip, w) = <<40, None, 60>> =>
                   /\ QEq(st.jitter, float(20))
                   /\ st.min = 40
                   /\ st.max = 60
                   /\ QEq(st.avg, float(50))
                   /\ Hundredths(st.packet_loss) = 3333

C7_Witness ==
    \E server_ip \in HostKeys :
        /\ WindowLatencies(server_ip, 60) = <<40, None, 60>>
        /\ QEq(Stats(server_ip, 60).jitter, float(20))

\* C8: add_measurement accepts every input, an absent latency included; for a
\* window that already holds a present latency, recording one more in-window
\* failure leaves min, max, avg and jitter unchanged and strictly increases
\* packet_loss.
C8_FailureOnlyRaisesLoss ==
    \A server_ip \in HostKeys, w \in Windows, latency \in LatencyOrNone :
        LET after == add_measurement(history, server_ip, latency, now)
            st == Stats(server_ip, w)
            st2 == get_statistics(after, server_ip, w, now)
        IN  /\ after[server_ip] =
                   Append(history[server_ip], Measurement(latency, now))
            /\ (latency = None /\ PresentInWindow(server_ip, w) # {}) =>
                   /\ st2.min = st.min
                   /\ st2.max = st.max
                   /\ st2.avg = st.avg
                   /\ st2.jitter = st.jitter
                   /\ QLt(st.packet_loss, st2.packet_loss)

C8_Witness ==
    \E server_ip \in HostKeys :
        LET s == history[server_ip]
            n == Len(s)
        IN  /\ n >= 3
            /\ s[n] = Measurement(None, now)
            /\ s[n - 1].latency # None
            /\ s[n - 1].timestamp >= now - 30
            /\ QLt(get_statistics([history EXCEPT ![server_ip] = SubSeq(s, 1, n - 1)],
                                  server_ip, 30, now).packet_loss,
                   Stats(server_ip, 30).packet_loss)

(* The series of a host reduced to the measurements of the window *)
OnlyWindow(server_ip, window_minutes) ==
    [history EXCEPT ![server_ip] =
        SelectSeq(@, LAMBDA m : m.timestamp >= now - window_minutes)]

(* One more measurement put in front of the series of a host *)
WithOlder(server_ip, latency, timestamp) ==
    [history EXCEPT ![server_ip] = <<Measurement(latency, timestamp)>> \o @]

\* C9: get_statistics and get_sparkline_data depend only on the measurements
\* with timestamp >= now - window: one exactly at the cutoff is counted, and
\* removing, adding or changing measurements older than the cutoff changes no
\* returned field.
C9_WindowOnly ==
    \A server_ip \in HostKeys, w \in Windows :
        /\ Len(_get_recent_data(history, server_ip, w, now)) =
               Cardinality(InWindow(server_ip, w))
        /\ get_statistics(OnlyWindow(server_ip, w), server_ip, w, now) =
               Stats(server_ip, w)
        /\ get_sparkline_data(OnlyWindow(server_ip, w), server_ip, w, now) =
               get_sparkline_data(history, server_ip, w, now)
        /\ \A latency \in LatencyOrNone, timestamp \in {now - w - 1, now - w - 30} :
               /\ get_statistics(WithOlder(server_ip, latency, timestamp),
                                 server_ip, w, now) = Stats(server_ip, w)
               /\ get_sparkline_data(WithOlder(server_ip, latency, timestamp),
                                     server_ip, w, now) =
                      get_sparkline_data(history, server_ip, w, now)

C9_Witness ==
    \E server_ip \in HostKeys :
        LET s == history[server_ip]
        IN  /\ Len(s) = 3
            /\ s[1].timestamp < now - 60
            /\ s[1].latency = 60
            /\ s[2] = Measurement(40, now - 60)
            /\ s[3].latency = None
            /\ Stats(server_ip, 60).min = 40
            /\ Stats(server_ip, 60).max = 40
            /\ get_sparkline_data(history, server_ip, 60, now) = <<float(40)>>

\* C10: when the window of a host holds no measurement at all (a host never
\* recorded included), get_statistics returns None for min, max, avg, jitter
\* and packet_loss.
C10_EmptyWindowAllNone ==
    \A server_ip \in HostKeys, w \in Windows :
        InWindow(server_ip, w) = {} =>
            LET st == Stats(server_ip, w)
            IN  /\ st.min = None
                /\ st.max = None
                /\ IsNoneFloat(st.avg)
                /\ IsNoneFloat(st.jitter)
                /\ IsNoneFloat(st.packet_loss)

C10_Witness ==
    /\ \E server_ip \in HostKeys :
          /\ history[server_ip] = <<>>
          /\ Stats(server_ip, 60) = NoStatistics
    /\ \E server_ip \in HostKeys :
          /\ Len(history[server_ip]) >= 2
          /\ \E i \in 1..Len(history[server_ip]) :
                history[server_ip][i].latency # None
          /\ InWindow(server_ip, 60) = {}
          /\ Stats(server_ip, 60) = NoStatistics

----------------------------------------------------------------------------
(* A long-running monitor of one host: a round every few seconds, so many  *)
(* measurements share a minute.  feed is how the probed host behaves.      *)

Feeds == {"steady", "alternating", "lossy", "down"}

FeedLatency(f, k) ==
    CASE f = "steady" -> 40
      [] f = "alternating" -> IF k % 2 = 1 THEN 40 ELSE 60
      [] f = "lossy" -> IF k % 3 = 0 THEN None ELSE 40 + (k % 7)
      [] OTHER -> None

MonitoredHost == "99.82.166.0"

InitSparkline ==
    /\ history = EmptyHistory
    /\ now = 0
    /\ feed \in Feeds
    /\ AppIdle

RecordFeed ==
    /\ Len(history[MonitoredHost]) < MaxSeriesLen
    /\ history' = add_measurement(history, MonitoredHost,
                      FeedLatency(feed, Len(history[MonitoredHost]) + 1), now)
    /\ UNCHANGED <<now, feed>>
    /\ UNCHANGED appVars

TickSparkline(d) ==
    /\ now + d <= MaxSparkTime
    /\ now' = now + d
    /\ UNCHANGED <<history, feed>>
    /\ UNCHANGED appVars

NextSparkline ==
    \/ RecordFeed
    \/ \E d \in LongSteps : TickSparkline(d)

SpecSparkline == InitSparkline /\ [][NextSparkline]_vars

Ceil(a, b) == (a + b - 1) \div b

(* Every Nth value of a sequence, starting from the first *)
EveryNth(s, N) == [k \in 1..Ceil(Len(s), N) |-> s[1 + (k - 1) * N]]

PresentSeq(server_ip, window_minutes) ==
    LET present == SelectSeq(history[server_ip],
                       LAMBDA m : /\ m.timestamp >= now - window_minutes
                                  /\ m.latency # None)
    IN  [i \in 1..Len(present) |-> float(present[i].latency)]

\* C3: for every series and window get_sparkline_data returns at most
\* max_points (50) values: the present in-window latencies in order, keeping
\* every Nth sample from the first, N = ceil(count / max_points).
C3_SparklineStride ==
    \A server_ip \in HostKeys, w \in Windows :
        LET present == PresentSeq(server_ip, w)
            data == get_sparkline_data(history, server_ip, w, now)
        IN  present # <<>> =>
                /\ Len(data) <= max_points
                /\ data = EveryNth(present, Ceil(Len(present), max_points))

\* C4: get_sparkline_data never returns an empty sequence, for a known or an
\* unknown host and any window; with zero present latencies in the window
\* (empty, or failures only) it returns exactly [0.0].
C4_SparklineNeverEmpty ==
    \A server_ip \in HostKeys, w \in Windows :
        LET data == get_sparkline_data(history, server_ip, w, now)
        IN  /\ Len(data) >= 1
            /\ PresentInWindow(server_ip, w) = {} => data = <<float(0)>>

C4_Witness ==
    /\ feed = "down"
    /\ Len(history[MonitoredHost]) >= 2
    /\ InWindow(MonitoredHost, 30) # {}
    /\ get_sparkline_data(history, MonitoredHost, 30, now) = <<float(0)>>
    /\ get_sparkline_data(history, "15.228.0.0", 30, now) = <<float(0)>>

----------------------------------------------------------------------------
(* Python dicts: d.get(k) and d[k] = v *)

DictGet(d, k) == IF k \in DOMAIN d THEN d[k] ELSE None

DictSet(d, k, v) == [x \in (DOMAIN d) \cup {k} |-> IF x = k THEN v ELSE d[x]]

(* int(x) of a float: truncation toward zero *)
int(q) == IF q.num >= 0 THEN q.num \div q.den ELSE -((-q.num) \div q.den)

----------------------------------------------------------------------------
(* WorldMap (world_map.py).  Degrees are in ten-thousandths, the projected
   plane is in units of 100 km. *)

MaxColumns == 4
MaxLines == 3
MaxMarkers == 2

(* pyproj EPSG:4326 -> EPSG:3857 on the coordinates the model uses *)
MercatorX ==
    (-1800000 :> -200) @@ (1800000 :> 200) @@ (0 :> 0) @@ (-774918 :> -86)
    @@ (-466372 :> -52) @@ (22935 :> 3) @@ (1038503 :> 116)

MercatorY ==
    (-750000 :> -129) @@ (850000 :> 200) @@ (0 :> 0) @@ (390395 :> 47)
    @@ (-235471 :> -27) @@ (488591 :> 63) @@ (12900 :> 1) @@ (860000 :> 214)

transform(longitude, latitude) ==
    [x |-> MercatorX[longitude], y |-> MercatorY[latitude]]

xmin == transform(-1800000, -750000).x

ymin == transform(-1800000, -750000).y

xmax == transform(1800000, 850000).x

ymax == transform(1800000, 850000).y

(* The projected country shapes: two triangles standing for the land masses *)
geoms ==
    << [a |-> [x |-> -160, y |-> 120], b |-> [x |-> -40, y |-> 120],
        c |-> [x |-> -70, y |-> -100]],
       [a |-> [x |-> -20, y |-> 130], b |-> [x |-> 180, y |-> 130],
        c |-> [x |-> 40, y |-> -80]] >>

Least(S) == CHOOSE v \in S : \A w \in S : v <= w

Greatest(S) == CHOOSE v \in S : \A w \in S : v >= w

(* geom.bounds *)
bounds(geom) ==
    [minx |-> Least({geom.a.x, geom.b.x, geom.c.x}),
     miny |-> Least({geom.a.y, geom.b.y, geom.c.y}),
     maxx |-> Greatest({geom.a.x, geom.b.x, geom.c.x}),
     maxy |-> Greatest({geom.a.y, geom.b.y, geom.c.y})]

(* the sign of (q - p) x (pt - p), scaled by the positive denominators *)
Cross(p, q, x, y) ==
    (q.x - p.x) * (y.num - p.y * y.den) * x.den
    - (q.y - p.y) * (x.num - p.x * x.den) * y.den

(* geom.intersects(Point(x, y)): inside or on the boundary *)
intersects(geom, x, y) ==
    LET s1 == Cross(geom.a, geom.b, x, y)
        s2 == Cross(geom.b, geom.c, x, y)
        s3 == Cross(geom.c, geom.a, x, y)
    IN  \/ (s1 >= 0 /\ s2 >= 0 /\ s3 >= 0)
        \/ (s1 <= 0 /\ s2 <= 0 /\ s3 <= 0)

(* index.intersection((x, y, x, y)): the shapes whose bounding box holds the point *)
IndexIntersection(x, y) ==
    { n \in 1..Len(geoms) :
        LET bb == bounds(geoms[n])
        IN  /\ QLe(float(bb.minx), x) /\ QLe(x, float(bb.maxx))
            /\ QLe(float(bb.miny), y) /\ QLe(y, float(bb.maxy)) }

_is_land_cell(x, y) ==
    \E n \in IndexIntersection(x, y) : intersects(geoms[n], x, y)

InBounds(row, col, columns, lines) ==
    0 <= col /\ col < columns /\ 0 <= row /\ row < lines

(* A variant in which the first marker of a cell keeps it *)
RECURSIVE GridPositionsFirstWins(_, _, _, _, _)
GridPositionsFirstWins(servers, pixel_width, pixel_height, columns, lines) ==
    IF servers = <<>> THEN <<>>
    ELSE LET rest == GridPositionsFirstWins(Tail(servers), pixel_width,
                                            pixel_height, columns, lines)
             server == Head(servers)
             pt == transform(server.longitude, server.latitude)
             col == int(Q((pt.x - xmin) * pixel_width.den, pixel_width.num))
             row == int(Q((ymax - pt.y) * pixel_height.den, pixel_height.num))
         IN  IF InBounds(row, col, columns, lines)
             THEN DictSet(rest, <<row, col>>, server.indicator)
             ELSE rest

(* server_positions: the servers are visited in list order and each one
   assigns server_positions[(row, col)] *)
RECURSIVE _get_server_grid_positions(_, _, _, _, _)
_get_server_grid_positions(servers, pixel_width, pixel_height, columns, lines) ==
    IF servers = <<>> THEN <<>>
    ELSE LET n == Len(servers)
             before == _get_server_grid_positions(SubSeq(servers, 1, n - 1),
                           pixel_width, pixel_height, columns, lines)
             server == servers[n]
             pt == transform(server.longitude, server.latitude)
             col == int(Q((pt.x - xmin) * pixel_width.den, pixel_width.num))
             row == int(Q((ymax - pt.y) * pixel_height.den, pixel_height.num))
         IN  IF InBounds(row, col, columns, lines)
             THEN DictSet(before, <<row, col>>, server.indicator)
             ELSE before

(* land_grid_gen: the land/water value of every cell centre *)
(* A grid that classifies the north-west corner of each cell instead of
   its centre *)
LandGridAtCorners(columns, lines, pixel_width, pixel_height) ==
    [line \in 0..(lines - 1) |->
        [col \in 0..(columns - 1) |->
            _is_land_cell(
                Q(xmin * pixel_width.den + col * pixel_width.num,
                  pixel_width.den),
                Q(ymax * pixel_height.den - line * pixel_height.num,
                  pixel_height.den))]]

land_grid_gen(columns, lines, pixel_width, pixel_height) ==
    [line \in 0..(lines - 1) |->
        [col \in 0..(columns - 1) |->
            _is_land_cell(
                Q(2 * xmin * pixel_width.den + (2 * col + 1) * pixel_width.num,
                  2 * pixel_width.den),
                Q(2 * ymax * pixel_height.den - (2 * line + 1) * pixel_height.num,
                  2 * pixel_height.den))]]

(* A variant that classifies the cells again on every call *)
CreateLandGridAlways(cache, columns, lines, pixel_width, pixel_height) ==
    LET land_grid == land_grid_gen(columns, lines, pixel_width, pixel_height)
    IN  [land_grid |-> land_grid,
         cache |-> DictSet(cache, <<columns, lines>>, land_grid),
         classified |-> columns * lines]

(* Returns the grid, the cache after the call and the number of cells
   that were classified by _is_land_cell *)
_create_land_grid(cache, columns, lines, pixel_width, pixel_height) ==
    LET cache_key == <<columns, lines>>
    IN  IF cache_key \in DOMAIN cache
        THEN [land_grid |-> cache[cache_key], cache |-> cache, classified |-> 0]
        ELSE LET land_grid == land_grid_gen(columns, lines, pixel_width,
                                            pixel_height)
             IN  [land_grid |-> land_grid,
                  cache |-> DictSet(cache, cache_key, land_grid),
                  classified |-> columns * lines]

indicator_styles ==
    ("green" :> "green") @@ ("yellow" :> "yellow") @@ ("red" :> "red")

_get_indicator_style(indicator, styles) ==
    IF indicator \in DOMAIN styles THEN styles[indicator] ELSE ""

(* One row of the map as a sequence of styled characters *)
_render_map_row(line, columns, land_grid, server_positions, styles) ==
    [k \in 1..columns |->
        LET pos == <<line, k - 1>>
        IN  IF pos \in DOMAIN server_positions
            THEN [char |-> server_positions[pos],
                  style |-> _get_indicator_style(server_positions[pos], styles)]
            ELSE IF land_grid[line][k - 1]
                 THEN [char |-> "*", style |-> "dim white"]
                 ELSE [char |-> " ", style |-> ""]]

NewLine == [char |-> "\n", style |-> ""]

(* the loop of draw over the lines, from the given line on *)
RECURSIVE RenderLines(_, _, _, _, _)
RenderLines(line, columns, lines, land_grid, server_positions) ==
    IF line >= lines THEN <<>>
    ELSE _render_map_row(line, columns, land_grid, server_positions,
                         indicator_styles)
         \o (IF line < lines - 1 THEN <<NewLine>> ELSE <<>>)
         \o RenderLines(line + 1, columns, lines, land_grid, server_positions)

(* A check of the dimensions that lets zero through *)
DimensionsNegative(columns, lines) == columns < 0 \/ lines < 0

InvalidDimensions(columns, lines) == columns <= 0 \/ lines <= 0

(* draw: the exception raised (or ""), the text, the cache after the call
   and the number of cells classified *)
draw(cache, columns, lines, servers) ==
    IF InvalidDimensions(columns, lines)
    THEN [raised |-> "ValueError", text |-> <<>>, cache |-> cache,
          classified |-> 0]
    ELSE IF columns = 0 \/ lines = 0
    THEN [raised |-> "ZeroDivisionError", text |-> <<>>, cache |-> cache,
          classified |-> 0]
    ELSE LET pixel_width == Q(xmax - xmin, columns)
             pixel_height == Q(ymax - ymin, lines)
             land == _create_land_grid(cache, columns, lines, pixel_width,
                                       pixel_height)
             server_positions ==
                 IF servers # <<>>
                 THEN _get_server_grid_positions(servers, pixel_width,
                                                 pixel_height, columns, lines)
                 ELSE <<>>
         IN  [raised |-> "",
              text |-> RenderLines(0, columns, lines, land.land_grid,
                                   server_positions),
              cache |-> land.cache,
              classified |-> land.classified]

(* The map alone: draw is called with any size and any markers *)
DrawColumns == {-1, 0, 2, MaxColumns}

DrawLines == {0, MaxLines}

(* Paris, Singapore and a point north of the map's 85 degrees *)
Markers ==
    { [latitude |-> 488591, longitude |-> 22935, indicator |-> "green"],
      [latitude |-> 12900, longitude |-> 1038503, indicator |-> "red"],
      [latitude |-> 860000, longitude |-> 0, indicator |-> "dot"] }

Indicators == {"green", "yellow", "red", "dot"}

MarkerLists == UNION { [1..n -> Markers] : n \in 0..MaxMarkers }

InitMap ==
    /\ history = EmptyHistory
    /\ now = 0
    /\ feed = "none"
    /\ AppIdle

(* What is kept of a call of draw *)
DrawRecord(columns, lines, servers, d) ==
    [columns |-> columns, lines |-> lines, servers |-> servers,
     raised |-> d.raised, text |-> d.text, classified |-> d.classified]

DrawCall(columns, lines, servers) ==
    /\ LET d == draw(_land_grid_cache, columns, lines, servers)
       IN  /\ _land_grid_cache' = d.cache
           /\ map_call' = DrawRecord(columns, lines, servers, d)
    /\ UNCHANGED <<historyVars, roundVars, ping_call, stats_file, reading>>

NextMap ==
    \E columns \in DrawColumns, lines \in DrawLines, servers \in MarkerLists :
        DrawCall(columns, lines, servers)

SpecMap == InitMap /\ [][NextMap]_vars

(* The call the model last made, and whether its size was cached before it *)
LastPositions ==
    IF map_call.servers = <<>> THEN <<>>
    ELSE _get_server_grid_positions(map_call.servers,
             Q(xmax - xmin, map_call.columns), Q(ymax - ymin, map_call.lines),
             map_call.columns, map_call.lines)

\* C11: draw fails with the invalid-dimensions error for every call with
\* columns <= 0 or lines <= 0, whatever the markers are, and such a call
\* leaves the land/water cache exactly as it was.
C11_InvalidDimensionsRejected ==
    [][(map_call' # map_call /\ (map_call'.columns <= 0 \/ map_call'.lines <= 0))
        => /\ map_call'.raised = "ValueError"
           /\ _land_grid_cache' = _land_grid_cache]_vars

C11_Witness ==
    /\ map_call.raised = "ValueError"
    /\ map_call.columns > 0
    /\ map_call.lines = 0
    /\ Len(map_call.servers) = 2
    /\ _land_grid_cache # <<>>

(* The character drawn for cell (row, col) by the last call *)
DrawnCell(row, col) == map_call.text[row * (map_call.columns + 1) + col + 1]

\* C12: the cache keeps, for every (columns, lines) pair rendered, the grid
\* computed on the first render of that pair: no step changes or evicts an
\* entry, a render of a cached pair classifies no cell, and the land/water
\* cells it returns are those of the cached grid.
C12_CacheStable ==
    [][/\ \A k \in DOMAIN _land_grid_cache :
            /\ k \in DOMAIN _land_grid_cache'
            /\ _land_grid_cache'[k] = _land_grid_cache[k]
       /\ map_call'.raised = "" =>
            LET key == <<map_call'.columns, map_call'.lines>>
            IN  /\ key \in DOMAIN _land_grid_cache'
                /\ key \in DOMAIN _land_grid_cache => map_call'.classified = 0
                /\ \A row \in 0..(key[2] - 1), col \in 0..(key[1] - 1) :
                     LET cell == map_call'.text[row * (key[1] + 1) + col + 1]
                     IN  \/ cell.char \in Indicators
                         \/ cell.char = (IF _land_grid_cache'[key][row][col]
                                         THEN "*" ELSE " ")]_vars

C12_Witness ==
    /\ map_call.raised = ""
    /\ map_call.classified = 0
    /\ Len(map_call.servers) = 2
    /\ LastPositions # <<>>
    /\ Cardinality(DOMAIN _land_grid_cache) = 2
    /\ \E row \in 0..(map_call.lines - 1), col \in 0..(map_call.columns - 1) :
         DrawnCell(row, col).char = "*"

(* floor of a fraction with a positive denominator *)
Floor(q) == q.num \div q.den

(* The overlay as the floor formula gives it, markers taken in list order *)
RECURSIVE FloorPositions(_, _, _)
FloorPositions(servers, columns, lines) ==
    IF servers = <<>> THEN <<>>
    ELSE LET n == Len(servers)
             before == FloorPositions(SubSeq(servers, 1, n - 1), columns, lines)
             pt == transform(servers[n].longitude, servers[n].latitude)
             col == Floor(Q((pt.x - xmin) * columns, xmax - xmin))
             row == Floor(Q((ymax - pt.y) * lines, ymax - ymin))
         IN  IF InBounds(row, col, columns, lines)
             THEN DictSet(before, <<row, col>>, servers[n].indicator)
             ELSE before

\* C13: a marker is placed at col = floor((x - xmin) / pixel_width) and
\* row = floor((ymax - y) / pixel_height), and every marker whose floor
\* position lies outside the grid is dropped, also one less than a cell
\* west of xmin or north of ymax.
C13_FloorPlacement ==
    map_call.raised = "" =>
        LET claimed == FloorPositions(map_call.servers, map_call.columns,
                                      map_call.lines)
        IN  \A row \in 0..(map_call.lines - 1), col \in 0..(map_call.columns - 1) :
                IF <<row, col>> \in DOMAIN claimed
                THEN DrawnCell(row, col).char = claimed[<<row, col>>]
                ELSE DrawnCell(row, col).char \notin Indicators

(* The cell the last call computed for its i-th marker *)
MarkerCell(i) ==
    LET pt == transform(map_call.servers[i].longitude, map_call.servers[i].latitude)
    IN  << int(Q((ymax - pt.y) * map_call.lines, ymax - ymin)),
           int(Q((pt.x - xmin) * map_call.columns, xmax - xmin)) >>

MarkersAt(row, col) ==
    { i \in 1..Len(map_call.servers) : MarkerCell(i) = <<row, col>> }

\* C14: when several markers of one draw call map to the same cell, the
\* cell shows the indicator of the marker that comes last in the servers
\* list, and the cell holds exactly one character.
C14_LastMarkerWins ==
    map_call.raised = "" =>
        /\ Len(map_call.text) = map_call.lines * (map_call.columns + 1) - 1
        /\ \A row \in 0..(map_call.lines - 1), col \in 0..(map_call.columns - 1) :
             MarkersAt(row, col) # {} =>
                 DrawnCell(row, col).char =
                     map_call.servers[Greatest(MarkersAt(row, col))].indicator

C14_Witness ==
    /\ map_call.raised = ""
    /\ \E row \in 0..(map_call.lines - 1), col \in 0..(map_call.columns - 1) :
         /\ MarkersAt(row, col) = {1, 2}
         /\ map_call.servers[1].indicator = "green"
         /\ map_call.servers[2].indicator = "red"
         /\ DrawnCell(row, col) = [char |-> "red", style |-> "red"]

----------------------------------------------------------------------------
(* ping.py: ping_server and get_latency_indicator *)

MaxDelaySteps == 130

(* What ping3.ping can do: return a delay in ms, return None (timeout),
   raise errors.PingError or raise another exception *)
PingKinds == {"delay", "None", "PingError", "Exception"}

NoDelay == Q(0, 1)

(* Delays every 2.7 ms up to 351 ms, and the delays around the tier limits *)
PingDelays ==
    { Q(27 * k, 10) : k \in 0..MaxDelaySteps }
    \cup { Q(427, 10), Q(999, 10), Q(1000, 10), Q(1009, 10), Q(3000, 10),
           Q(3009, 10), Q(3010, 10) }

PingReturns ==
    { [kind |-> "delay", delay |-> d] : d \in PingDelays }
    \cup { [kind |-> k, delay |-> NoDelay] : k \in PingKinds \ {"delay"} }

(* A variant whose handlers catch errors.PingError only *)
PingServerCatchesPingError(ret) ==
    IF ret.kind = "delay" THEN [raised |-> "", value |-> int(ret.delay)]
    ELSE IF ret.kind = "Exception" THEN [raised |-> "Exception", value |-> None]
    ELSE [raised |-> "", value |-> None]

(* ping_server: the exception that leaves it (or "") and the value returned *)
ping_server(ret) ==
    IF ret.kind = "delay" THEN [raised |-> "", value |-> int(ret.delay)]
    ELSE IF ret.kind = "None" THEN [raised |-> "", value |-> None]
    ELSE IF ret.kind = "PingError" THEN [raised |-> "", value |-> None]
    ELSE [raised |-> "", value |-> None]

(* A variant whose yellow tier ends below 300 *)
IndicatorYellowBelow300(latency_ms) ==
    IF latency_ms = None
    THEN [emoji |-> "red", body |-> "FAILED", style |-> "red bold"]
    ELSE IF latency_ms < 100
    THEN [emoji |-> "green", body |-> latency_ms, style |-> "green"]
    ELSE IF 100 <= latency_ms /\ latency_ms < 300
    THEN [emoji |-> "yellow", body |-> latency_ms, style |-> "yellow"]
    ELSE [emoji |-> "red", body |-> latency_ms, style |-> "red"]

(* The Text of get_latency_indicator: its emoji, what follows it (FAILED,
   or the latency before " ms") and its style *)
get_latency_indicator(latency_ms) ==
    IF latency_ms = None
    THEN [emoji |-> "red", body |-> "FAILED", style |-> "red bold"]
    ELSE IF latency_ms < 100
    THEN [emoji |-> "green", body |-> latency_ms, style |-> "green"]
    ELSE IF 100 <= latency_ms /\ latency_ms <= 300
    THEN [emoji |-> "yellow", body |-> latency_ms, style |-> "yellow"]
    ELSE [emoji |-> "red", body |-> latency_ms, style |-> "red"]

InitPing ==
    /\ history = EmptyHistory
    /\ now = 0
    /\ feed = "none"
    /\ AppIdle

(* One probe outside a round: ping_server, then the indicator of its result *)
PingCall(ret) ==
    /\ LET latency == ping_server(ret)
       IN  ping_call' =
               [kind |-> ret.kind, delay |-> ret.delay,
                raised |-> latency.raised, latency_ms |-> latency.value,
                indicator |-> IF latency.raised = ""
                              THEN get_latency_indicator(latency.value)
                              ELSE NoIndicator]
    /\ UNCHANGED <<historyVars, roundVars, mapVars, stats_file, reading>>

NextPing == \E ret \in PingReturns : PingCall(ret)

SpecPing == InitPing /\ [][NextPing]_vars

\* C18: ping_server never raises: it returns None whenever the underlying
\* ping returns None or raises any exception, and otherwise the measured
\* milliseconds truncated to an integer (42.7 gives 42).
C18_PingServerTotal ==
    ping_call.kind \in PingKinds =>
        /\ ping_call.raised = ""
        /\ ping_call.kind # "delay" => ping_call.latency_ms = None
        /\ ping_call.kind = "delay" =>
             /\ ping_call.latency_ms # None
             /\ QLe(float(ping_call.latency_ms), ping_call.delay)
             /\ QLt(ping_call.delay, float(ping_call.latency_ms + 1))
        /\ QEq(ping_call.delay, Q(427, 10)) /\ ping_call.kind = "delay"
             => ping_call.latency_ms = 42

C18_Witness ==
    /\ ping_call.kind = "delay"
    /\ ping_call.raised = ""
    /\ ping_call.delay = Q(427, 10)
    /\ ping_call.latency_ms = 42

----------------------------------------------------------------------------
(* LagLensApp: the probe round and what it displays *)

(* The first two configured hosts; degrees in ten-thousandths *)
AWS_SERVERS ==
    << [name |-> "us-east-1", ip |-> "99.82.166.0", latitude |-> 390395,
        longitude |-> -774918, city |-> "Ashburn, VA"],
       [name |-> "sa-east-1", ip |-> "15.228.0.0", latitude |-> -235471,
        longitude |-> -466372, city |-> "Sao Paulo"] >>

(* A probe that has not returned yet, and one that raised *)
Pending == -3

Raised == -2

(* timeout=10 of the probes and asyncio.sleep(5) between rounds, in seconds *)
ping_timeout == 10

sleep_seconds == 5

(* What can come back from asyncio.to_thread(ping_server, ...): whatever
   ping3 does inside ping_server, or a failure of the thread call itself *)
ProbeReturns ==
    { [kind |-> "delay", delay |-> Q(427, 10)],
      [kind |-> "None", delay |-> NoDelay],
      [kind |-> "PingError", delay |-> NoDelay],
      [kind |-> "RuntimeError", delay |-> NoDelay] }

(* f"{x:.1f}": tenths, rounded half to even *)
Format1f(q) ==
    LET t == (10 * q.num) \div q.den
        r == (10 * q.num) % q.den
    IN  IF 2 * r > q.den \/ (2 * r = q.den /\ t % 2 = 1) THEN t + 1 ELSE t

(* LatencySparkline.__init__: the data, or the placeholder *)
LatencySparkline(data) == IF data # <<>> THEN data ELSE <<float(0)>>

BlankPanel ==
    [text |-> "", avg |-> None, min |-> None, max |-> None, jitter |-> None,
     loss |-> None]

NoDataPanel == [BlankPanel EXCEPT !.text = "No data available"]

StatsPanel(server_stats) ==
    [text |-> "stats",
     avg |-> Format1f(server_stats.avg),
     min |-> Format1f(float(server_stats.min)),
     max |-> Format1f(float(server_stats.max)),
     jitter |-> Format1f(server_stats.jitter),
     loss |-> Format1f(server_stats.packet_loss)]

get_server_indicator(latest, server) ==
    LET latency == DictGet(latest, server.ip)
    IN  IF latency # None
        THEN IF latency < 100 THEN "green"
             ELSE IF 100 <= latency /\ latency <= 300 THEN "yellow"
             ELSE "red"
        ELSE "dot"

(* The indicators of servers_with_indicators of update_world_map *)
update_world_map(servers, latest) ==
    [i \in 1..Len(servers) |-> get_server_indicator(latest, servers[i])]

servers_with_indicators(servers, latest) ==
    [i \in 1..Len(servers) |->
        [latitude |-> servers[i].latitude, longitude |-> servers[i].longitude,
         indicator |-> get_server_indicator(latest, servers[i])]]

(* The size the layout gives the "ascii-map" widget *)
map_widget_size == [width |-> MaxColumns, height |-> MaxLines]

(* update_world_map: the map is drawn when the widget has a size *)
DrawWorldMap(cache, call, servers, latest) ==
    LET width == map_widget_size.width
        height == map_widget_size.height
    IN  IF width > 0 /\ height > 0
        THEN LET markers == servers_with_indicators(servers, latest)
                 d == draw(cache, width, height, markers)
             IN  [cache |-> d.cache,
                  call |-> DrawRecord(width, height, markers, d)]
        ELSE [cache |-> cache, call |-> call]

(* A loop over zip(self.servers, results) that lets a raised result escape:
   the round stops at the first exception *)
RECURSIVE RecordUntilRaised(_, _, _, _, _, _)
RecordUntilRaised(k, servers, res, t, hist, latest) ==
    IF k > Len(servers) \/ k > Len(res) THEN [history |-> hist, latest |-> latest]
    ELSE IF res[k] = Raised THEN [history |-> hist, latest |-> latest]
    ELSE RecordUntilRaised(k + 1, servers, res, t,
             add_measurement(hist, servers[k].ip, res[k], t),
             DictSet(latest, servers[k].ip, res[k]))

(* A loop that records a result for every host of the list, also for one
   that has no result of its own *)
RECURSIVE RecordEveryServer(_, _, _, _, _, _)
RecordEveryServer(k, servers, res, t, hist, latest) ==
    IF k > Len(servers) THEN [history |-> hist, latest |-> latest]
    ELSE LET result == IF k > Len(res) THEN None ELSE res[k]
         IN  IF result = Raised
             THEN RecordEveryServer(k + 1, servers, res, t,
                      add_measurement(hist, servers[k].ip, None, t), latest)
             ELSE RecordEveryServer(k + 1, servers, res, t,
                      add_measurement(hist, servers[k].ip, result, t),
                      DictSet(latest, servers[k].ip, result))

(* A loop that pairs the results with the last hosts of the list instead of
   the first ones *)
RECURSIVE RecordNewestFirst(_, _, _, _, _, _)
RecordNewestFirst(k, servers, res, t, hist, latest) ==
    IF k > Len(servers) \/ k > Len(res) THEN [history |-> hist, latest |-> latest]
    ELSE LET at == IF Len(servers) > Len(res)
                   THEN k + Len(servers) - Len(res) ELSE k
             server_ip == servers[at].ip
             result == res[k]
         IN  IF result = Raised
             THEN RecordNewestFirst(k + 1, servers, res, t,
                      add_measurement(hist, server_ip, None, t), latest)
             ELSE RecordNewestFirst(k + 1, servers, res, t,
                      add_measurement(hist, server_ip, result, t),
                      DictSet(latest, server_ip, result))

(* The loop of update_ping_results over zip(self.servers, results) *)
RECURSIVE RecordResults(_, _, _, _, _, _)
RecordResults(k, servers, res, t, hist, latest) ==
    IF k > Len(servers) \/ k > Len(res) THEN [history |-> hist, latest |-> latest]
    ELSE LET server_ip == servers[k].ip
             result == res[k]
         IN  IF result = Raised
             THEN RecordResults(k + 1, servers, res, t,
                      add_measurement(hist, server_ip, None, t), latest)
             ELSE RecordResults(k + 1, servers, res, t,
                      add_measurement(hist, server_ip, result, t),
                      DictSet(latest, server_ip, result))

update_sparkline_for_server(hist, t, spark, server_ip) ==
    IF server_ip \in DOMAIN spark
    THEN [spark EXCEPT ![server_ip] = get_sparkline_data(hist, server_ip, 30, t)]
    ELSE spark

RECURSIVE update_server_containers(_, _, _, _, _, _)
update_server_containers(k, servers, hist, t, panel, spark) ==
    IF k > Len(servers) THEN [panel |-> panel, sparklines |-> spark]
    ELSE LET server_ip == servers[k].ip
             server_stats == get_statistics(hist, server_ip, 60, t)
             hasData == ~IsNoneFloat(server_stats.avg)
             text == IF hasData THEN StatsPanel(server_stats) ELSE NoDataPanel
         IN  update_server_containers(k + 1, servers, hist, t,
                 IF server_ip \in DOMAIN panel
                 THEN [panel EXCEPT ![server_ip] = text] ELSE panel,
                 IF hasData
                 THEN update_sparkline_for_server(hist, t, spark, server_ip)
                 ELSE spark)

(* The add-server form *)

(* str.strip() on the inputs the model types *)
strip(str) ==
    IF str = " " THEN ""
    ELSE IF str = " 99.82.166.0 " THEN "99.82.166.0"
    ELSE str

(* float(str): the strings that parse, in ten-thousandths of a degree *)
FloatOfString ==
    ("48.8591" :> 488591) @@ ("2.2935" :> 22935) @@ ("91" :> 910000)
    @@ ("181" :> 1810000) @@ ("1.29" :> 12900) @@ ("103.8503" :> 1038503)

(* The messages of self.notify *)
ErrorMessages ==
    { "Please fill in all required fields", "Latitude must be between -90 and 90",
      "Longitude must be between -180 and 180",
      "Latitude and Longitude must be valid numbers",
      "Server with IP already exists", "Server with name already exists" }

(* A validation that compares addresses only *)
ValidateAddressOnly(name, ip, latitude_str, longitude_str, servers) ==
    IF name = "" \/ ip = "" \/ latitude_str = "" \/ longitude_str = ""
    THEN "Please fill in all required fields"
    ELSE IF latitude_str \notin DOMAIN FloatOfString
            \/ longitude_str \notin DOMAIN FloatOfString
    THEN "Latitude and Longitude must be valid numbers"
    ELSE IF ~(-900000 <= FloatOfString[latitude_str]
              /\ FloatOfString[latitude_str] <= 900000)
    THEN "Latitude must be between -90 and 90"
    ELSE IF ~(-1800000 <= FloatOfString[longitude_str]
              /\ FloatOfString[longitude_str] <= 1800000)
    THEN "Longitude must be between -180 and 180"
    ELSE IF \E i \in 1..Len(servers) : servers[i].ip = ip
    THEN "Server with IP already exists"
    ELSE ""

(* The checks without the one on the address: a host whose address is in
   use is accepted under a new name *)
ValidateNameOnly(name, ip, latitude_str, longitude_str, servers) ==
    IF name = "" \/ ip = "" \/ latitude_str = "" \/ longitude_str = ""
    THEN "Please fill in all required fields"
    ELSE IF latitude_str \notin DOMAIN FloatOfString
            \/ longitude_str \notin DOMAIN FloatOfString
    THEN "Latitude and Longitude must be valid numbers"
    ELSE IF ~(-900000 <= FloatOfString[latitude_str]
              /\ FloatOfString[latitude_str] <= 900000)
    THEN "Latitude must be between -90 and 90"
    ELSE IF ~(-1800000 <= FloatOfString[longitude_str]
              /\ FloatOfString[longitude_str] <= 1800000)
    THEN "Longitude must be between -180 and 180"
    ELSE IF \E i \in 1..Len(servers) : servers[i].name = name
    THEN "Server with name already exists"
    ELSE ""

(* The checks of add_new_server on the stripped inputs: the message of the
   first failing check, or "" *)
validate(name, ip, latitude_str, longitude_str, servers) ==
    IF name = "" \/ ip = "" \/ latitude_str = "" \/ longitude_str = ""
    THEN "Please fill in all required fields"
    ELSE IF latitude_str \notin DOMAIN FloatOfString
            \/ longitude_str \notin DOMAIN FloatOfString
    THEN "Latitude and Longitude must be valid numbers"
    ELSE IF ~(-900000 <= FloatOfString[latitude_str]
              /\ FloatOfString[latitude_str] <= 900000)
    THEN "Latitude must be between -90 and 90"
    ELSE IF ~(-1800000 <= FloatOfString[longitude_str]
              /\ FloatOfString[longitude_str] <= 1800000)
    THEN "Longitude must be between -180 and 180"
    ELSE IF \E i \in 1..Len(servers) : servers[i].ip = ip
    THEN "Server with IP already exists"
    ELSE IF \E i \in 1..Len(servers) : servers[i].name = name
    THEN "Server with name already exists"
    ELSE ""

(* _refresh_server_containers: a sparkline and a stats widget for the host
   appended last, unless it has a sparkline already *)
_refresh_server_containers(servers, spark, panel) ==
    LET server_ip == servers[Len(servers)].ip
    IN  IF server_ip \notin DOMAIN spark
        THEN [sparklines |-> DictSet(spark, server_ip,
                                     LatencySparkline(<<float(0)>>)),
              panel |-> DictSet(panel, server_ip, BlankPanel)]
        ELSE [sparklines |-> spark, panel |-> panel]

(* add_new_server on the form's inputs: the notification and the state *)
add_new_server(form, servers, hist, spark, panel) ==
    LET name == strip(form.name)
        ip == strip(form.ip)
        latitude_str == strip(form.latitude)
        longitude_str == strip(form.longitude)
        city == strip(form.city)
        message == validate(name, ip, latitude_str, longitude_str, servers)
    IN  IF message # ""
        THEN [notification |-> message, servers |-> servers, history |-> hist,
              sparklines |-> spark, panel |-> panel]
        ELSE LET new_server ==
                     [name |-> name, ip |-> ip,
                      latitude |-> FloatOfString[latitude_str],
                      longitude |-> FloatOfString[longitude_str],
                      city |-> IF city # "" THEN city ELSE "Unknown Location"]
                 appended == Append(servers, new_server)
                 shown == _refresh_server_containers(appended, spark, panel)
             IN  [notification |-> "Successfully added server",
                  servers |-> appended,
                  history |-> DictSet(hist, ip, <<>>),
                  sparklines |-> shown.sparklines,
                  panel |-> shown.panel]

(* The form of a new host, and forms that must be rejected: an address in
   use (typed with blanks around it), a name in use, a blank field, a
   latitude that is no number, coordinates out of range *)
NewHostForm ==
    [name |-> "eu-west-3", ip |-> "35.180.0.0", latitude |-> "48.8591",
     longitude |-> "2.2935", city |-> ""]

AddForms ==
    { NewHostForm,
      [NewHostForm EXCEPT !.name = "virginia", !.ip = " 99.82.166.0 "],
      [NewHostForm EXCEPT !.name = "sa-east-1"],
      [NewHostForm EXCEPT !.ip = " "],
      [NewHostForm EXCEPT !.latitude = "north"],
      [NewHostForm EXCEPT !.latitude = "91"],
      [NewHostForm EXCEPT !.longitude = "181"] }

Init ==
    /\ history = EmptyHistory
    /\ now = 0
    /\ feed = "none"
    /\ runtime_servers = AWS_SERVERS
    /\ latest_latencies = <<>>
    /\ sparklines = [ip \in {AWS_SERVERS[i].ip : i \in 1..Len(AWS_SERVERS)} |->
                        LatencySparkline(<<float(0)>>)]
    /\ stats_panel = [ip \in {AWS_SERVERS[i].ip : i \in 1..Len(AWS_SERVERS)} |->
                        BlankPanel]
    /\ map_markers = <<>>
    /\ pc = "ready"
    /\ tasks = <<>>
    /\ results = <<>>
    /\ current_time = 0
    /\ map_timer = "armed"
    /\ rounds = 0
    /\ elapsed = 0
    /\ notification = "none"
    /\ _land_grid_cache = <<>>
    /\ map_call = NoMapCall
    /\ ping_call = NoPingCall
    /\ stats_file = <<>>
    /\ reading = NoRead

(* The timer of on_mount fires: the first drawing of the map *)
on_mount_timer ==
    /\ map_timer = "armed"
    /\ map_timer' = "fired"
    /\ map_markers' = update_world_map(runtime_servers, latest_latencies)
    /\ LET drawn == DrawWorldMap(_land_grid_cache, map_call, runtime_servers,
                                 latest_latencies)
       IN  /\ _land_grid_cache' = drawn.cache
           /\ map_call' = drawn.call
    /\ UNCHANGED <<history, now, feed, runtime_servers, latest_latencies,
                   sparklines, stats_panel, pc, tasks, results, current_time,
                   rounds, elapsed, notification, ping_call, stats_file, reading>>

(* update_ping_results up to its await: the probes are issued *)
update_ping_results_begin ==
    /\ pc = "ready"
    /\ rounds' = rounds + 1
    /\ current_time' = now
    /\ elapsed' = 0
    /\ tasks' = [i \in 1..Len(runtime_servers) |-> runtime_servers[i].ip]
    /\ results' = [i \in 1..Len(runtime_servers) |-> Pending]
    /\ pc' = "gather"
    /\ UNCHANGED <<history, now, feed, runtime_servers, latest_latencies,
                   sparklines, stats_panel, map_markers, map_timer,
                   notification, mapVars, ping_call, stats_file, reading>>

(* One probe of the round ends: ping_server returned a latency or None, or
   the call raised *)
ping_server_async(i, ret) ==
    /\ pc = "gather"
    /\ i \in 1..Len(results)
    /\ results[i] = Pending
    /\ results' = [results EXCEPT ![i] =
                      IF ret.kind = "RuntimeError" THEN Raised
                      ELSE ping_server(ret).value]
    /\ UNCHANGED <<history, now, feed, runtime_servers, latest_latencies,
                   sparklines, stats_panel, map_markers, pc, tasks,
                   current_time, map_timer, rounds, elapsed, notification,
                   mapVars, ping_call, stats_file, reading>>

(* The end of a round with the panels and the map updated from what was
   there before the round's results are recorded *)
UpdateShowsBeforeRecording ==
    /\ pc = "gather"
    /\ \A i \in 1..Len(results) : results[i] # Pending
    /\ LET rec == RecordResults(1, runtime_servers, results, current_time,
                                history, latest_latencies)
           shown == update_server_containers(1, runtime_servers, history,
                                             now, stats_panel, sparklines)
           drawn == DrawWorldMap(_land_grid_cache, map_call, runtime_servers,
                                 latest_latencies)
       IN  /\ history' = rec.history
           /\ latest_latencies' = rec.latest
           /\ stats_panel' = shown.panel
           /\ sparklines' = shown.sparklines
           /\ map_markers' = update_world_map(runtime_servers, latest_latencies)
           /\ _land_grid_cache' = drawn.cache
           /\ map_call' = drawn.call
    /\ pc' = "sleep"
    /\ UNCHANGED <<now, feed, runtime_servers, tasks, results, current_time,
                   map_timer, rounds, elapsed, notification, ping_call,
                   stats_file, reading>>

(* update_ping_results after the gather: record, update the panels, redraw *)
update_ping_results_end ==
    /\ pc = "gather"
    /\ \A i \in 1..Len(results) : results[i] # Pending
    /\ LET rec == RecordResults(1, runtime_servers, results, current_time,
                                history, latest_latencies)
           shown == update_server_containers(1, runtime_servers, rec.history,
                                             now, stats_panel, sparklines)
           drawn == DrawWorldMap(_land_grid_cache, map_call, runtime_servers,
                                 rec.latest)
       IN  /\ history' = rec.history
           /\ latest_latencies' = rec.latest
           /\ stats_panel' = shown.panel
           /\ sparklines' = shown.sparklines
           /\ map_markers' = update_world_map(runtime_servers, rec.latest)
           /\ _land_grid_cache' = drawn.cache
           /\ map_call' = drawn.call
    /\ pc' = "sleep"
    /\ UNCHANGED <<now, feed, runtime_servers, tasks, results, current_time,
                   map_timer, rounds, elapsed, notification, ping_call, stats_file, reading>>

(* A loop driven by an interval timer instead: the next round is due when
   the interval is over, whether or not the round before it has ended *)
IntervalTimerFires ==
    /\ pc \in {"gather", "sleep"}
    /\ pc' = "ready"
    /\ UNCHANGED <<history, now, feed, runtime_servers, latest_latencies,
                   sparklines, stats_panel, map_markers, tasks, results,
                   current_time, map_timer, rounds, elapsed, notification,
                   mapVars, ping_call, stats_file, reading>>

(* asyncio.sleep(5) of periodic_ping_updates is over *)
periodic_ping_updates ==
    /\ pc = "sleep"
    /\ pc' = "ready"
    /\ UNCHANGED <<history, now, feed, runtime_servers, latest_latencies,
                   sparklines, stats_panel, map_markers, tasks, results,
                   current_time, map_timer, rounds, elapsed, notification,
                   mapVars, ping_call, stats_file, reading>>

(* The "Add Server" button: add_new_server on what the form holds *)
on_button_pressed(form) ==
    /\ pc # "exited"
    /\ LET added == add_new_server(form, runtime_servers, history, sparklines,
                                   stats_panel)
       IN  /\ notification' = added.notification
           /\ runtime_servers' = added.servers
           /\ history' = added.history
           /\ sparklines' = added.sparklines
           /\ stats_panel' = added.panel
    /\ UNCHANGED <<now, feed, latest_latencies, map_markers, pc, tasks, results,
                   current_time, map_timer, rounds, elapsed, mapVars, ping_call, stats_file, reading>>

(* Time passes.  The steps are of 30 minutes and more, and a gather is
   over within ping_timeout seconds, so none falls into a gather. *)
TickApp(d) ==
    /\ pc # "gather"
    /\ now + d <= MaxTime
    /\ now' = now + d
    /\ UNCHANGED <<history, feed>>
    /\ UNCHANGED appVars

(* The round and the form; of the forms only the one of a new host is
   submitted here. *)
Next ==
    \/ on_mount_timer
    \/ rounds < MaxRounds /\ update_ping_results_begin
    \/ \E i \in 1..Len(results), ret \in ProbeReturns : ping_server_async(i, ret)
    \/ update_ping_results_end
    \/ periodic_ping_updates
    \/ on_button_pressed(NewHostForm)
    \/ \E d \in TickSteps : TickApp(d)

Spec == Init /\ [][Next]_vars

----------------------------------------------------------------------------
(* LagLensApp over several rounds: the periodic loop, the key bindings    *)

(* The key "s": the statistics and the recent measurements of every host
   are written to a file *)
action_save_statistics ==
    /\ pc # "exited"
    /\ stats_file' =
          [i \in 1..Len(runtime_servers) |->
              [name |-> runtime_servers[i].name,
               ip |-> runtime_servers[i].ip,
               statistics |-> get_statistics(history, runtime_servers[i].ip,
                                             60, now),
               recent_measurements |->
                   _get_recent_data(history, runtime_servers[i].ip, 60, now)]]
    /\ notification' = "Statistics saved"
    /\ UNCHANGED <<history, now, feed, runtime_servers, latest_latencies,
                   sparklines, stats_panel, map_markers, pc, tasks, results,
                   current_time, map_timer, rounds, elapsed, mapVars,
                   ping_call, reading>>

(* An exit that first records what the probes in flight have returned so
   far *)
QuitRecordsReturned ==
    /\ pc \in {"ready", "gather", "sleep"}
    /\ pc' = "exited"
    /\ history' =
          [ip \in DOMAIN history |->
              IF pc = "gather"
                 /\ \E i \in 1..Len(tasks) :
                       tasks[i] = ip /\ results[i] \notin {Pending, Raised}
              THEN LET i == CHOOSE k \in 1..Len(tasks) : tasks[k] = ip
                   IN  Append(history[ip], Measurement(results[i], current_time))
              ELSE history[ip]]
    /\ UNCHANGED <<now, feed, runtime_servers, latest_latencies,
                   sparklines, stats_panel, map_markers, tasks, results,
                   current_time, map_timer, rounds, elapsed, notification,
                   mapVars, ping_call, stats_file, reading>>

(* The key "q": the application exits.  The task of periodic_ping_updates
   is cancelled where it is suspended, in the gather or in the sleep, and
   never resumed: what the probes in flight return is read by nobody. *)
action_quit ==
    /\ pc \in {"ready", "gather", "sleep"}
    /\ pc' = "exited"
    /\ UNCHANGED <<history, now, feed, runtime_servers, latest_latencies,
                   sparklines, stats_panel, map_markers, tasks, results,
                   current_time, map_timer, rounds, elapsed, notification,
                   mapVars, ping_call, stats_file, reading>>

MaxLoopRounds == 2

(* What a probe returns while the loop runs: a latency, or nothing *)
LoopReturns ==
    { [kind |-> "delay", delay |-> Q(427, 10)],
      [kind |-> "None", delay |-> NoDelay] }

NextLoop ==
    \/ rounds < MaxLoopRounds /\ update_ping_results_begin
    \/ \E i \in 1..Len(results), ret \in LoopReturns : ping_server_async(i, ret)
    \/ update_ping_results_end
    \/ periodic_ping_updates
    \/ on_button_pressed(NewHostForm)
    \/ action_quit
    \/ \E d \in LongSteps : TickApp(d)

SpecLoop == Init /\ [][NextLoop]_vars

(* The last measurement of a host's series *)
Last(series) == series[Len(series)]

\* C15: a crash or error in one host's probe is recorded as an absent
\* measurement for that host only: the round is not aborted, it runs to
\* its end with every host's own result recorded, whatever the position
\* of the failed probe in the list.
C15_ProbeFailureIsolated ==
    pc = "sleep" =>
        \A i \in 1..Len(results) :
            /\ history[tasks[i]] # <<>>
            /\ Last(history[tasks[i]]).timestamp = current_time
            /\ Last(history[tasks[i]]).latency =
                   (IF results[i] = Raised THEN None ELSE results[i])

C15_Witness ==
    /\ pc = "sleep"
    /\ results = <<Raised, 42>>
    /\ Last(history[tasks[1]]).latency = None
    /\ Last(history[tasks[2]]).latency = 42
    /\ latest_latencies = [ip \in {tasks[2]} |-> 42]

(* The hosts the round in progress was started for *)
RoundHosts == { tasks[i] : i \in 1..Len(tasks) }

\* C20: each completed probe round appends exactly one measurement (success
\* or failure) to the series of every host configured when the round
\* started, and nothing to any other series; no host is written twice or
\* skipped.
C20_OneMeasurementPerHost ==
    [][(pc = "gather" /\ pc' = "sleep") =>
         \A ip \in HostKeys :
             IF ip \in RoundHosts
             THEN /\ Len(history'[ip]) = Len(history[ip]) + 1
                  /\ SubSeq(history'[ip], 1, Len(history[ip])) = history[ip]
                  /\ Last(history'[ip]).timestamp = current_time
             ELSE history'[ip] = history[ip]]_vars

C20_Witness ==
    /\ pc = "sleep"
    /\ rounds = 1
    /\ Len(tasks) = 2
    /\ Len(runtime_servers) = 3
    /\ stats_panel[runtime_servers[3].ip] = NoDataPanel
    /\ history[runtime_servers[3].ip] = <<>>
    /\ \A i \in 1..2 : Len(history[tasks[i]]) = 1

(* The form under every input, next to the probe rounds *)
NextServers ==
    \/ rounds < MaxRounds /\ update_ping_results_begin
    \/ \E i \in 1..Len(results), ret \in ProbeReturns : ping_server_async(i, ret)
    \/ update_ping_results_end
    \/ periodic_ping_updates
    \/ \E form \in AddForms : on_button_pressed(form)

SpecServers == Init /\ [][NextServers]_vars

(* The form names a host that exists: same address or same name *)
NamesExistingHost(form) ==
    \E i \in 1..Len(runtime_servers) :
        \/ runtime_servers[i].ip = strip(form.ip)
        \/ runtime_servers[i].name = strip(form.name)

\* C17: an add-host request whose name or address equals that of an
\* existing host is rejected, and a rejected request (duplicate, missing
\* field, non-numeric or out-of-range coordinate) changes nothing: the host
\* list and its length, the latency history and the sparkline table stay
\* as they were.
C17_RejectedAddChangesNothing ==
    \A form \in AddForms :
        LET added == add_new_server(form, runtime_servers, history, sparklines,
                                    stats_panel)
        IN  /\ NamesExistingHost(form) => added.notification \in ErrorMessages
            /\ added.notification \in ErrorMessages =>
                 /\ added.servers = runtime_servers
                 /\ Len(added.servers) = Len(runtime_servers)
                 /\ added.history = history
                 /\ added.sparklines = sparklines
                 /\ added.panel = stats_panel
            /\ added.notification \notin ErrorMessages =>
                 /\ ~NamesExistingHost(form)
                 /\ Len(added.servers) = Len(runtime_servers) + 1

C17_Witness ==
    /\ notification = "Server with IP already exists"
    /\ Len(runtime_servers) = 3
    /\ history[runtime_servers[3].ip] # <<>>
    /\ runtime_servers[3].ip \in DOMAIN sparklines

(* The round in seconds.  A reply arrives in the second its delay falls
   into, ping3 gives up (returns None) when ping_timeout seconds are over,
   and an error can end a probe at any time before that. *)
ReturnsAt(ret) ==
    IF ret.kind = "delay" THEN elapsed = int(Q(ret.delay.num, 1000 * ret.delay.den))
    ELSE IF ret.kind = "None" THEN elapsed = ping_timeout
    ELSE TRUE

(* A second passes while probes are in flight *)
SecondPasses ==
    /\ pc = "gather"
    /\ \E i \in 1..Len(results) : results[i] = Pending
    /\ elapsed < ping_timeout
    /\ elapsed' = elapsed + 1
    /\ UNCHANGED <<history, now, feed, runtime_servers, latest_latencies,
                   sparklines, stats_panel, map_markers, pc, tasks, results,
                   current_time, map_timer, rounds, notification, mapVars,
                   ping_call, stats_file, reading>>

NextTiming ==
    \/ on_mount_timer
    \/ rounds < MaxRounds /\ update_ping_results_begin
    \/ \E i \in 1..Len(results), ret \in ProbeReturns :
          ReturnsAt(ret) /\ ping_server_async(i, ret)
    \/ SecondPasses
    \/ update_ping_results_end
    \/ periodic_ping_updates

SpecTiming == Init /\ [][NextTiming]_vars

\* C16: every probe has an enforced timeout strictly shorter than the round
\* interval, so the fan-in of a round always completes before one interval
\* has elapsed since the round started.
C16_FanInWithinInterval ==
    pc = "sleep" => elapsed < sleep_seconds

(* What the map shows for a host whose latest probe returned no latency:   *)
(* the red marker of the status vocabulary, or the unstyled dot the code   *)
(* falls back to.                                                          *)
DownIndicators == {"red", "dot"}

\* C2: after a probe round in which a host's probe failed (returned no
\* latency or raised), the map shows a down status for that host and its
\* statistics panel shows a numeric packet-loss percentage, never a blank or
\* "No data available" entry.
C2_FailingHostShown ==
    pc = "sleep" =>
        \A i \in 1..Len(results) :
            results[i] \in {None, Raised} =>
                /\ map_markers[i] \in DownIndicators
                /\ stats_panel[tasks[i]].text = "stats"
                /\ stats_panel[tasks[i]].loss # None

----------------------------------------------------------------------------
(* The text that draw returns, cell by cell *)

(* The centre of the cell (row, col) of the last call, row 0 at ymax *)
CellCentreX(col) ==
    Q(2 * map_call.columns * xmin + (2 * col + 1) * (xmax - xmin),
      2 * map_call.columns)

CellCentreY(row) ==
    Q(2 * map_call.lines * ymax - (2 * row + 1) * (ymax - ymin),
      2 * map_call.lines)

\* C28: for every valid size, draw produces exactly `lines` rows of exactly
\* `columns` cells, the rows separated by a newline with none after the
\* last; the cell (row, col) shows the marker's indicator when the overlay
\* has an entry for (row, col), and otherwise the land glyph if the centre
\* (xmin + (col + 0.5) * pixel_width, ymax - (row + 0.5) * pixel_height) is
\* land and the water glyph if not, row 0 being the northernmost.
C28_DrawnCells ==
    map_call.raised = "" =>
        /\ Len(map_call.text) = map_call.lines * (map_call.columns + 1) - 1
        /\ \A row \in 0..(map_call.lines - 2) :
              map_call.text[(row + 1) * (map_call.columns + 1)] = NewLine
        /\ \A row \in 0..(map_call.lines - 1), col \in 0..(map_call.columns - 1) :
              /\ DrawnCell(row, col) # NewLine
              /\ IF <<row, col>> \in DOMAIN LastPositions
                 THEN DrawnCell(row, col).char = LastPositions[<<row, col>>]
                 ELSE IF _is_land_cell(CellCentreX(col), CellCentreY(row))
                 THEN DrawnCell(row, col).char = "*"
                 ELSE DrawnCell(row, col).char = " "

(* A map of MaxColumns by MaxLines with a marker, land and water on it *)
C28_Witness ==
    /\ map_call.raised = ""
    /\ map_call.columns = MaxColumns
    /\ map_call.lines = MaxLines
    /\ \E row \in 0..(MaxLines - 1), col \in 0..(MaxColumns - 1) :
          /\ <<row, col>> \in DOMAIN LastPositions
          /\ DrawnCell(row, col).char = "red"
    /\ \E row \in 0..(MaxLines - 1), col \in 0..(MaxColumns - 1) :
          DrawnCell(row, col).char = "*"
    /\ \E row \in 0..(MaxLines - 1), col \in 0..(MaxColumns - 1) :
          DrawnCell(row, col).char = " "

----------------------------------------------------------------------------
(* A read of LatencyHistory from another thread while measurements are     *)
(* recorded: the list comprehension of _get_recent_data walks the live     *)
(* list element by element, and an append may fall between two elements.   *)

ReadKinds == {"statistics", "sparkline"}

(* The frame of the reader's steps *)
readerFrame == <<history, now, feed, roundVars, mapVars, ping_call, stats_file>>

(* get_statistics or get_sparkline_data is called: _get_recent_data reads
   the clock and starts to iterate over the host's list *)
get_statistics_call(kind, server_ip, window_minutes) ==
    /\ reading.pc \in {"idle", "returned"}
    /\ reading' = [NoRead EXCEPT !.pc = "iterating",
                                 !.kind = kind,
                                 !.server_ip = server_ip,
                                 !.window_minutes = window_minutes,
                                 !.cutoff_time = now - window_minutes,
                                 !.first_len = Len(history[server_ip])]
    /\ UNCHANGED readerFrame

(* One step of the list iterator: the next element if the list, as long as
   it is now, has one; the end of the comprehension otherwise *)
_get_recent_data_next ==
    /\ reading.pc = "iterating"
    /\ LET series == history[reading.server_ip]
       IN  IF reading.index < Len(series)
           THEN LET m == series[reading.index + 1]
                IN  reading' =
                        [reading EXCEPT !.index = @ + 1,
                                        !.recent =
                                            IF m.timestamp >= reading.cutoff_time
                                            THEN Append(@, m) ELSE @]
           ELSE reading' = [reading EXCEPT !.pc = "computing"]
    /\ UNCHANGED readerFrame

(* The host's series replaced by the list the comprehension built *)
RecentOnly == [history EXCEPT ![reading.server_ip] = reading.recent]

(* A return that computes the packet loss from the list as it is now *)
GetStatisticsReturnRereads ==
    /\ reading.pc = "computing"
    /\ LET t == reading.cutoff_time + reading.window_minutes
           stats == get_statistics(RecentOnly, reading.server_ip,
                                   reading.window_minutes, t)
       IN  reading' =
              [reading EXCEPT
                  !.pc = "returned",
                  !.last_len = Len(history[reading.server_ip]),
                  !.result = IF stats = NoStatistics THEN stats
                             ELSE [stats EXCEPT !.packet_loss =
                                      _calculate_packet_loss(
                                          _get_recent_data(history,
                                              reading.server_ip,
                                              reading.window_minutes, t))],
                  !.data = get_sparkline_data(RecentOnly, reading.server_ip,
                                              reading.window_minutes, t)]
    /\ UNCHANGED readerFrame

(* The rest of get_statistics / get_sparkline_data: everything is computed
   from the list the comprehension returned *)
get_statistics_return ==
    /\ reading.pc = "computing"
    /\ LET t == reading.cutoff_time + reading.window_minutes
       IN  reading' =
              [reading EXCEPT
                  !.pc = "returned",
                  !.last_len = Len(history[reading.server_ip]),
                  !.result = get_statistics(RecentOnly, reading.server_ip,
                                            reading.window_minutes, t),
                  !.data = get_sparkline_data(RecentOnly, reading.server_ip,
                                              reading.window_minutes, t)]
    /\ UNCHANGED readerFrame

ReadHost == "99.82.166.0"

InitRead ==
    /\ history = EmptyHistory
    /\ now = 0
    /\ feed = "none"
    /\ AppIdle

NextRead ==
    \/ \E latency \in LatencyOrNone : Record(ReadHost, latency)
    \/ \E d \in LongSteps : Tick(d)
    \/ \E kind \in ReadKinds : get_statistics_call(kind, ReadHost, 60)
    \/ _get_recent_data_next
    \/ get_statistics_return

SpecRead == InitRead /\ [][NextRead]_vars

(* The history with the first n measurements of a host's series only *)
PrefixOnly(server_ip, n) ==
    [history EXCEPT ![server_ip] = SubSeq(@, 1, n)]

\* C25: a statistics or sparkline read that overlaps with recording sees a
\* consistent snapshot: what it returns (min, max, avg, jitter and
\* packet_loss, or the sparkline data) is what the read computes from one
\* prefix of the host's series, a prefix as long as the series was at some
\* moment between the start and the end of the read.
C25_ConsistentSnapshot ==
    reading.pc = "returned" =>
        \E n \in reading.first_len..reading.last_len :
            LET t == reading.cutoff_time + reading.window_minutes
            IN  /\ reading.kind = "statistics" =>
                      reading.result =
                          get_statistics(PrefixOnly(reading.server_ip, n),
                                         reading.server_ip,
                                         reading.window_minutes, t)
                /\ reading.kind = "sparkline" =>
                      reading.data =
                          get_sparkline_data(PrefixOnly(reading.server_ip, n),
                                             reading.server_ip,
                                             reading.window_minutes, t)

(* A read that began on a series of one measurement and returned when it
   had three: a lost probe was recorded while the read was under way *)
C25_Witness ==
    /\ reading.pc = "returned"
    /\ reading.kind = "statistics"
    /\ reading.first_len = 1
    /\ reading.last_len = 3
    /\ Len(reading.recent) = 2
    /\ reading.result.packet_loss = Q(100, 2)

----------------------------------------------------------------------------
(* The loop when a widget update raises *)

(* The widget whose update raises at the end of a round: none, the stats
   widget of the first host, the "ping-results" panel, the "ascii-map" *)
WidgetFailures == {"none", "stats", "ping-results", "ascii-map"}

(* update_ping_results after the gather, with a widget update that may
   raise.  The stats widgets are updated inside try/except, the exception
   is logged and the method goes on; the updates of the results panel and
   of the map are not: the exception leaves update_ping_results and the
   while loop of periodic_ping_updates, and the task is over. *)
update_ping_results_widgets(failing) ==
    /\ pc = "gather"
    /\ \A i \in 1..Len(results) : results[i] # Pending
    /\ LET rec == RecordResults(1, runtime_servers, results, current_time,
                                history, latest_latencies)
           shown == update_server_containers(1, runtime_servers, rec.history,
                                             now, stats_panel, sparklines)
           drawn == DrawWorldMap(_land_grid_cache, map_call, runtime_servers,
                                 rec.latest)
           first_ip == runtime_servers[1].ip
       IN  /\ history' = rec.history
           /\ latest_latencies' = rec.latest
           /\ stats_panel' =
                 IF failing = "ping-results" THEN stats_panel
                 ELSE IF failing = "stats"
                 THEN [shown.panel EXCEPT ![first_ip] = stats_panel[first_ip]]
                 ELSE shown.panel
           /\ sparklines' =
                 IF failing = "ping-results" THEN sparklines
                 ELSE shown.sparklines
           /\ IF failing \in {"ping-results", "ascii-map"}
              THEN UNCHANGED <<map_markers, mapVars>>
              ELSE /\ map_markers' = update_world_map(runtime_servers, rec.latest)
                   /\ _land_grid_cache' = drawn.cache
                   /\ map_call' = drawn.call
           /\ pc' = IF failing \in {"ping-results", "ascii-map"}
                    THEN "crashed" ELSE "sleep"
    /\ UNCHANGED <<now, feed, runtime_servers, tasks, results, current_time,
                   map_timer, rounds, elapsed, notification, ping_call,
                   stats_file, reading>>

ProbeReturnsOf(i) ==
    \E ret \in ProbeReturns : ping_server_async(i, ret)

NextLive ==
    \/ on_mount_timer
    \/ rounds < MaxLoopRounds /\ update_ping_results_begin
    \/ \E i \in 1..Len(results) : ProbeReturnsOf(i)
    \/ \E failing \in WidgetFailures : update_ping_results_widgets(failing)
    \/ periodic_ping_updates

(* The steps of update_ping_results after the gather, told by the position
   of the task alone: it is enabled exactly when
   update_ping_results_widgets is, and the steps of NextLive that are
   RoundEnds steps are the update_ping_results_widgets steps *)
RoundEnds ==
    /\ pc = "gather"
    /\ \A i \in 1..Len(results) : results[i] # Pending
    /\ pc' \in {"sleep", "crashed"}

(* The event loop runs every task that is ready to run, and every probe
   returns or times out. *)
SpecLive ==
    /\ Init
    /\ [][NextLive]_vars
    /\ WF_vars(rounds < MaxLoopRounds /\ update_ping_results_begin)
    /\ \A i \in 1..Len(AWS_SERVERS) : WF_vars(ProbeReturnsOf(i))
    /\ WF_pc(RoundEnds)
    /\ WF_vars(periodic_ping_updates)

\* C23: assuming every probe eventually returns or times out, every started
\* round eventually completes and the next round is eventually started: a
\* slow, unreachable or crashing host or a failing widget update never
\* stops the periodic loop.  Stated for the first round: once it has
\* started, the second round is eventually started.
C23_LoopGoesOn ==
    (rounds = 1 /\ pc = "gather") ~> (rounds = 2)

(* What does hold: the second round is started unless the update of the
   results panel or of the map has raised *)
RoundsGoOnUnlessCrashed ==
    (rounds = 1 /\ pc = "gather") ~> (rounds = 2 \/ pc = "crashed")

----------------------------------------------------------------------------
(* The round as a barrier *)

\* C22: a round is a fan-out/fan-in barrier: while a probe of the round is
\* still out, no step records a measurement, changes a latest latency,
\* updates a host's statistics or sparkline, or draws the map with a
\* result of the round; the step that records does so only when every
\* probe has returned or failed, records every host of the round, and the
\* statistics it shows are computed from the series with all the round's
\* records in them, the map from the latest latencies after them.
C22_Barrier ==
    [][ /\ (pc = "gather" /\ \E i \in 1..Len(results) : results[i] = Pending) =>
            /\ history' = history
            /\ latest_latencies' = latest_latencies
            /\ \A ip \in DOMAIN stats_panel : stats_panel'[ip] = stats_panel[ip]
            /\ \A ip \in DOMAIN sparklines : sparklines'[ip] = sparklines[ip]
            /\ map_markers' \in
                  {map_markers, update_world_map(runtime_servers, latest_latencies)}
        /\ history' # history =>
            /\ pc = "gather"
            /\ \A i \in 1..Len(results) : results[i] # Pending
            /\ \A i \in 1..Len(tasks) :
                  /\ Len(history'[tasks[i]]) = Len(history[tasks[i]]) + 1
                  /\ results[i] \notin {None, Raised} =>
                        /\ stats_panel'[tasks[i]] =
                              StatsPanel(get_statistics(history', tasks[i], 60, now))
                        /\ sparklines'[tasks[i]] =
                              get_sparkline_data(history', tasks[i], 30, now)
                        /\ latest_latencies'[tasks[i]] = results[i]
            /\ map_markers' = update_world_map(runtime_servers, latest_latencies')
      ]_vars

(* A round is over: the first host's panel shows its 42 ms, the second
   host's probe returned nothing, the map has both markers *)
C22_Witness ==
    /\ pc = "sleep"
    /\ stats_panel["99.82.166.0"].text = "stats"
    /\ stats_panel["99.82.166.0"].avg = 420
    /\ stats_panel["15.228.0.0"] = NoDataPanel
    /\ map_markers = <<"green", "dot">>

\* C29: when a host is added while a round's probes are in flight, every
\* result of the round is still recorded under the host that was probed:
\* the i-th host of the list is the one the i-th probe went to, its new
\* measurement and its latest latency are the i-th result, and the new
\* host gets no measurement and no latest-latency entry from the round.
C29_AddedMidRound ==
    [][(pc = "gather" /\ pc' = "sleep" /\ Len(runtime_servers) > Len(tasks)) =>
         /\ \A i \in 1..Len(tasks) :
               /\ runtime_servers[i].ip = tasks[i]
               /\ history'[tasks[i]] # <<>>
               /\ Last(history'[tasks[i]]).latency =
                     (IF results[i] = Raised THEN None ELSE results[i])
               /\ results[i] # Raised =>
                     /\ tasks[i] \in DOMAIN latest_latencies'
                     /\ latest_latencies'[tasks[i]] = results[i]
               /\ results[i] = Raised =>
                     DictGet(latest_latencies', tasks[i]) =
                        DictGet(latest_latencies, tasks[i])
         /\ \A i \in (Len(tasks) + 1)..Len(runtime_servers) :
               /\ history'[runtime_servers[i].ip] = history[runtime_servers[i].ip]
               /\ runtime_servers[i].ip \notin DOMAIN latest_latencies'
      ]_vars

(* The round of two hosts is over with 42 ms for the first host and nothing
   for the second; the host added during the gather has no entry *)
C29_Witness ==
    /\ pc = "sleep"
    /\ Len(tasks) = 2
    /\ Len(runtime_servers) = 3
    /\ results = <<42, None>>
    /\ history[tasks[1]] = <<Measurement(42, current_time)>>
    /\ history[tasks[2]] = <<Measurement(None, current_time)>>
    /\ DOMAIN latest_latencies = {tasks[1], tasks[2]}
    /\ latest_latencies[tasks[1]] = 42

----------------------------------------------------------------------------
(* The series over several rounds *)

\* C21: in every reachable state, after any sequence of probe rounds and
\* add-host operations, the timestamps within each host's series are
\* non-decreasing in insertion order (the clock that datetime.now() reads
\* is taken not to be set back).
C21_TimestampsNonDecreasing ==
    \A ip \in DOMAIN history :
        \A i \in 1..(Len(history[ip]) - 1) :
            history[ip][i].timestamp <= history[ip][i + 1].timestamp

(* Two rounds an hour apart, a host added between them *)
C21_Witness ==
    /\ Len(runtime_servers) = 3
    /\ Len(history["99.82.166.0"]) = 2
    /\ history["99.82.166.0"][1].timestamp = 0
    /\ history["99.82.166.0"][2].timestamp = 60
    /\ Len(history["35.180.0.0"]) = 1
    /\ history["35.180.0.0"][1].timestamp = 60


\* C24: at most one probe round is in progress at any time: when the probes
\* of a round are issued, the task is at the top of its loop and every
\* probe of the round before has returned, its result is the last
\* measurement of its host's series, stamped with that round's time, and
\* the map shows the markers of the latest latencies; so no series ever
\* has two rounds writing to it.
C24_OneRoundAtATime ==
    [][ rounds' = rounds + 1 =>
          /\ pc = "ready"
          /\ rounds >= 1 =>
                /\ \A i \in 1..Len(tasks) :
                      /\ results[i] # Pending
                      /\ history[tasks[i]] # <<>>
                      /\ Last(history[tasks[i]]) =
                            Measurement(IF results[i] = Raised THEN None
                                        ELSE results[i], current_time)
                /\ Len(map_markers) >= Len(tasks)
                /\ \A i \in 1..Len(map_markers) :
                      map_markers[i] =
                          get_server_indicator(latest_latencies, runtime_servers[i])
      ]_vars

(* The second round is out with a probe pending, the first one recorded *)
C24_Witness ==
    /\ rounds = 2
    /\ pc = "gather"
    /\ \E i \in 1..Len(results) : results[i] = Pending
    /\ \A i \in 1..Len(AWS_SERVERS) : Len(history[AWS_SERVERS[i].ip]) = 1


(* Every host that was there from the start has one measurement per round
   that was recorded, a host added later has no more than that; every
   measurement is a latency or None with the time of a round *)
RoundsWhole ==
    LET recorded == Len(history[AWS_SERVERS[1].ip])
    IN  /\ recorded \in {rounds - 1, rounds}
        /\ \A i \in 1..Len(runtime_servers) :
              LET series == history[runtime_servers[i].ip]
              IN  /\ IF i <= Len(AWS_SERVERS) THEN Len(series) = recorded
                     ELSE Len(series) <= recorded
                  /\ \A k \in 1..Len(series) :
                        /\ DOMAIN series[k] = {"latency", "timestamp"}
                        /\ series[k].latency \in {None, 42}
                        /\ series[k].timestamp \in 0..MaxTime

\* C26: if the application is shut down while the task awaits the probes
\* of a round or sleeps between two rounds, the results of the probes in
\* flight are discarded and the history is left whole: the exit changes no
\* series, nothing is recorded after it, a step that records does so for
\* every host probed in the round, and in every state each series holds
\* complete measurements only, one per recorded round.
C26_QuitLeavesHistoryWhole ==
    [][ /\ (pc' = "exited" \/ pc = "exited") => history' = history
        /\ history' # history =>
              \A i \in 1..Len(tasks) :
                  Len(history'[tasks[i]]) = Len(history[tasks[i]]) + 1
        /\ RoundsWhole'
      ]_vars

(* Quit in the second round's gather: one probe had returned its 42 ms,
   one was still out; the series have the first round only *)
C26_Witness ==
    /\ pc = "exited"
    /\ rounds = 2
    /\ \E i \in 1..Len(results) : results[i] = 42
    /\ \E i \in 1..Len(results) : results[i] = Pending
    /\ \A i \in 1..Len(AWS_SERVERS) : Len(history[AWS_SERVERS[i].ip]) = 1


----------------------------------------------------------------------------
(* The series under everything that touches LatencyHistory *)

(* The forms submitted here: the new host, and an address in use typed
   under another name *)
SeriesForms ==
    { NewHostForm,
      [NewHostForm EXCEPT !.name = "virginia", !.ip = " 99.82.166.0 "] }

NextSeries ==
    \/ rounds < MaxLoopRounds /\ update_ping_results_begin
    \/ \E i \in 1..Len(results), ret \in LoopReturns : ping_server_async(i, ret)
    \/ update_ping_results_end
    \/ periodic_ping_updates
    \/ \E form \in SeriesForms : on_button_pressed(form)
    \/ action_save_statistics

SpecSeries == Init /\ [][NextSeries]_vars

IsPrefix(s, t) == Len(s) <= Len(t) /\ SubSeq(t, 1, Len(s)) = s

\* C27: each host's series is append-only: over every step of a probe
\* round (with its statistics and sparkline reads), of an add-host request,
\* accepted or rejected, and of a snapshot export, the series of every
\* address before the step is a prefix of its series after the step; no
\* measurement is removed, reordered or modified, also not by the reset of
\* the history done when a host is added.
C27_AppendOnly ==
    [][ \A ip \in DOMAIN history :
            /\ ip \in DOMAIN history'
            /\ IsPrefix(history[ip], history'[ip]) ]_vars

(* A host added and an export made after the first round was recorded: the
   series of the first round are still there in the second round *)
C27_Witness ==
    /\ rounds = 2
    /\ Len(runtime_servers) = 3
    /\ Len(stats_file) = 3
    /\ Len(history["99.82.166.0"]) = 2
    /\ history["35.180.0.0"] # <<>>
    /\ Len(stats_file[1].recent_measurements) = 1


----------------------------------------------------------------------------
(* The runtime host list under add-host requests *)

(* A second new host *)
SecondHostForm ==
    [name |-> "ap-southeast-1", ip |-> "35.71.118.0", latitude |-> "1.29",
     longitude |-> "103.8503", city |-> "Singapore"]

(* The forms of AddForms, the second host, and the second host's address
   under the first new host's name *)
HostForms ==
    AddForms \cup {SecondHostForm, [SecondHostForm EXCEPT !.name = "eu-west-3"]}

NextHostList ==
    \/ rounds < MaxRounds /\ update_ping_results_begin
    \/ \E i \in 1..Len(results), ret \in LoopReturns : ping_server_async(i, ret)
    \/ update_ping_results_end
    \/ periodic_ping_updates
    \/ \E form \in HostForms : on_button_pressed(form)

SpecHostList == Init /\ [][NextHostList]_vars


(* No two hosts of the list share a name, no two share an address *)
UniqueHosts(servers) ==
    \A i, j \in 1..Len(servers) :
        i # j => /\ servers[i].name # servers[j].name
                 /\ servers[i].ip # servers[j].ip

\* C30: in every reachable state, after any sequence of accepted and
\* rejected add-host requests starting from the configured host list, no
\* two hosts of the runtime host list share a name and no two share an
\* address; no step removes or moves a host, and a step that changes the
\* list is an accepted request that lengthens it by exactly one host,
\* appended at the end.
C30_HostListGrowsUnique ==
    [][ /\ UniqueHosts(runtime_servers)
        /\ UniqueHosts(runtime_servers')
        /\ Len(runtime_servers') >= Len(runtime_servers)
        /\ SubSeq(runtime_servers', 1, Len(runtime_servers)) = runtime_servers
        /\ runtime_servers' # runtime_servers =>
              /\ Len(runtime_servers') = Len(runtime_servers) + 1
              /\ notification' = "Successfully added server"
              /\ \E form \in HostForms :
                    /\ runtime_servers'[Len(runtime_servers')].name = form.name
                    /\ runtime_servers'[Len(runtime_servers')].ip = form.ip
      ]_vars

(* Both new hosts were accepted, the second one first, and a request after
   them was rejected for its address *)
C30_Witness ==
    /\ Len(runtime_servers) = 4
    /\ SubSeq(runtime_servers, 1, 2) = AWS_SERVERS
    /\ runtime_servers[3].name = "ap-southeast-1"
    /\ runtime_servers[4].name = "eu-west-3"
    /\ notification = "Server with IP already exists"

====
